---- MODULE Spec2Model ----
(***************************************************************************)
(* Gas estimation (crates/rpc/rpc-eth-api/src/helpers/estimate.rs).        *)
(*                                                                         *)
(* One request to EstimateCall::estimate_gas_with is modelled as a state   *)
(* machine whose steps are the executor invocations of the request: the    *)
(* set-up, the short-circuit for plain transfers, the capping of the       *)
(* ceiling, the probe at the ceiling, the disambiguator                    *)
(* (map_out_of_gas_err), the optimistic guess and the binary search.       *)
(*                                                                         *)
(* The executor (Call::transact), the state provider and create_txn_env    *)
(* are external to the file: their answers are inputs.  The executor is    *)
(* either unconstrained (every invocation may answer anything an EVM can   *)
(* answer at that gas limit) or deterministic with a success threshold.    *)
(*                                                                         *)
(* Gas values are u64 in the code.  All values of the model stay far below *)
(* 2^31 / 64, so no u64 operation of the code wraps on them; the f64       *)
(* comparison of the tolerance test is exact on them (see WithinTolerance).*)
(*                                                                         *)
(* Block body storage (crates/storage/storage-api/src/chain.rs).           *)
(*                                                                         *)
(* EthStorage is modelled as a second state machine, StorageSpec, over the *)
(* two tables it touches (BlockOmmers, BlockWithdrawals): one call of      *)
(* write_block_bodies, remove_block_bodies_above or read_block_bodies is   *)
(* one step, and the caller takes the result before the next call.  Each   *)
(* specification holds the variables of the other at rest.                 *)
(***************************************************************************)
EXTENDS Integers, Sequences, FiniteSets, TLC

VARIABLES
    pc,                 \* position of the request in estimate_gas_with
    exec,               \* the executor the request runs against
    input,              \* the request, the block and what the state provider answers
    evm_env,            \* evm_env.cfg_env: disable_eip3607, disable_base_fee
    request_nonce,      \* request.nonce
    tx_gas_limit,       \* tx_env.gas_limit() of the working transaction
    highest_gas_limit,
    lowest_gas_limit,
    gas_used,
    mid_gas_limit,
    result,             \* what estimate_gas_with returned
    calls,              \* number of executor invocations so far
    last_limit,         \* gas limit of the most recent invocation
    last_kind,          \* kind of outcome of the most recent invocation
    probe_res,          \* outcome of the probe execution
    probe_limit,        \* gas limit the probe ran with
    retry_res,          \* outcome of the disambiguator's re-execution
    opt_limit,          \* gas limit of the optimistic execution (0: not run)
    hi_kind,            \* outcome kind of the invocation that ran at highest_gas_limit
    last_env,           \* environment and transaction of the most recent invocation
    chain_spec,         \* provider.chain_spec(): where Paris and Shanghai activate
    ommers_table,       \* tables::BlockOmmers
    withdrawals_table,  \* tables::BlockWithdrawals
    call                \* the storage call in progress: its arguments and its result

vars == <<pc, exec, input, tx_gas_limit, highest_gas_limit, lowest_gas_limit,
          gas_used, mid_gas_limit, result, calls, last_limit, last_kind,
          probe_res, probe_limit, retry_res, opt_limit, hi_kind,
          evm_env, request_nonce, last_env,
          chain_spec, ommers_table, withdrawals_table, call>>

\* the variables of the block body storage
storage_vars == <<chain_spec, ommers_table, withdrawals_table, call>>

\* the variables of one gas estimation
estimate_vars == <<pc, exec, input, tx_gas_limit, highest_gas_limit, lowest_gas_limit,
                   gas_used, mid_gas_limit, result, calls, last_limit, last_kind,
                   probe_res, probe_limit, retry_res, opt_limit, hi_kind,
                   evm_env, request_nonce, last_env>>

(***************************************************************************)
(* Program constants.                                                      *)
(***************************************************************************)
MIN_TRANSACTION_GAS == 21000
CALL_STIPEND_GAS == 2300
\* ESTIMATE_GAS_ERROR_RATIO = 0.015 as the fraction RatioNum / RatioDen
RatioNum == 15
RatioDen == 1000

(***************************************************************************)
(* Bounds of the model.                                                    *)
(***************************************************************************)
MaxBlockGas == 30000
GasStep == 3000
\* block numbers 1..MaxBlock, header timestamps 1..MaxTimestamp, at most
\* MaxBodies elements in the vector handed to one storage call
MaxBlock == 2
MaxTimestamp == 2
MaxBodies == 2

Min(a, b) == IF a < b THEN a ELSE b

Some(v) == [some |-> TRUE, v |-> v]
None == [some |-> FALSE, v |-> 0]

\* One request: request.gas, request.gas_price.is_some(), the block's gas
\* limit, the transaction create_txn_env builds (input empty, kind, gas price,
\* gas limit), the answer of account_code for the callee and the answer of
\* caller_gas_allowance (None: the lookup fails).
Request(gas, price_some, block, empty, kind, price, gl, code, allow) ==
    [gas |-> gas, price_some |-> price_some, block |-> block, empty |-> empty,
     kind |-> kind, price |-> price, gl |-> gl, code |-> code, allowance |-> allow]

Block == MaxBlockGas
Requests == {
    \* a plain transfer, nothing specified
    Request(None, FALSE, Block, TRUE, "Call", 0, Block, "None", Some(Block)),
    \* a transfer to an account with empty code, the gas price specified
    Request(None, TRUE, Block, TRUE, "Call", 1, Block, "Empty", Some(Block - GasStep - 1)),
    \* a transfer whose gas limit is specified as the minimum
    Request(Some(MIN_TRANSACTION_GAS), FALSE, Block, TRUE, "Call", 0,
            MIN_TRANSACTION_GAS, "None", Some(Block)),
    \* a transfer the sender cannot pay at the specified price
    Request(None, TRUE, Block, TRUE, "Call", 1, Block, "None",
            Some(MIN_TRANSACTION_GAS - GasStep)),
    \* a contract call, nothing specified
    Request(None, FALSE, Block, FALSE, "Call", 0, Block, "Code", Some(Block)),
    \* a contract call with a gas limit below the block's
    Request(Some(Block - GasStep), FALSE, Block, FALSE, "Call", 0, Block - GasStep,
            "Code", Some(Block)),
    \* a contract call with a gas limit above the block's and a fee cap
    Request(Some(Block + GasStep), FALSE, Block, FALSE, "Call", 1, Block + GasStep,
            "Code", Some(Block + GasStep)),
    \* a call without input to a contract
    Request(None, FALSE, Block, TRUE, "Call", 0, Block, "Code", Some(Block)),
    \* a call without input whose callee cannot be looked up
    Request(None, FALSE, Block, TRUE, "Call", 0, Block, "Err", Some(Block)),
    \* a contract creation without input
    Request(None, FALSE, Block, TRUE, "Create", 0, Block, "None", Some(Block)),
    \* the balance of the sender cannot be read
    Request(None, TRUE, Block, FALSE, "Call", 1, Block, "Code", None),
    \* a transaction built with a gas limit below the ceiling
    Request(None, FALSE, Block, FALSE, "Call", 0, Block - 2 * GasStep, "Code", Some(Block))
}

\* evm_env.cfg_env as the caller passes it, and request.nonce
CfgEnvs == [disable_eip3607 : BOOLEAN, disable_base_fee : BOOLEAN]
Nonces == {None, Some(1)}

\* the fields of the transaction other than its gas limit
TxFields(inp) == [empty |-> inp.empty, kind |-> inp.kind, price |-> inp.price]

\* what one executor invocation is handed besides the gas limit: evm_env and
\* the transaction create_txn_env built from the request
Environment(env, nonce, inp) ==
    [disable_eip3607 |-> env.disable_eip3607, disable_base_fee |-> env.disable_base_fee,
     nonce |-> nonce, tx |-> TxFields(inp)]

NoEnvironment == Environment([disable_eip3607 |-> FALSE, disable_base_fee |-> FALSE],
                             None, [empty |-> FALSE, kind |-> "", price |-> 0])

\* a faulty variant of the EVM settings: the base fee stays as the caller set it
ForceFlags_KeepsBaseFee(env) == [env EXCEPT !.disable_eip3607 = TRUE]

\* lines 47 and 52: the flags forced for every estimation
ForceFlags(env) == [env EXCEPT !.disable_eip3607 = TRUE, !.disable_base_fee = TRUE]

GasUsedValues == {GasStep + GasStep, MIN_TRANSACTION_GAS, MaxBlockGas - 2 * GasStep}
Refunds == {0, GasStep + GasStep}
Outputs == {"0x", "0x08c379a0"}
HaltReasons == {"OutOfGas", "InvalidFEOpcode"}

(***************************************************************************)
(* Outcomes of one executor invocation: Ok(ExecutionResult) or Err.        *)
(***************************************************************************)
Success(u, r) ==
    [kind |-> "Success", gas_used |-> u, gas_refunded |-> r, output |-> "", reason |-> ""]
Revert(u, o) ==
    [kind |-> "Revert", gas_used |-> u, gas_refunded |-> 0, output |-> o, reason |-> ""]
Halt(u, h) ==
    [kind |-> "Halt", gas_used |-> u, gas_refunded |-> 0, output |-> "", reason |-> h]
ExecErr(k) ==
    [kind |-> k, gas_used |-> 0, gas_refunded |-> 0, output |-> "", reason |-> ""]
NoOutcome == ExecErr("none")

IsOk(out) == out.kind \in {"Success", "Revert", "Halt"}
is_gas_too_high(out) == out.kind = "GasTooHigh"
is_gas_too_low(out) == out.kind = "GasTooLow"

\* An EVM never uses more gas than the limit it ran with; a halt uses all of it.
AnyOutcomes(limit) ==
    {Success(u, r) : u \in {g \in GasUsedValues : g <= limit}, r \in Refunds}
        \cup {Revert(u, o) : u \in {g \in GasUsedValues : g <= limit}, o \in Outputs}
        \cup {Halt(limit, h) : h \in HaltReasons}
        \cup {ExecErr("GasTooHigh"), ExecErr("GasTooLow"), ExecErr("Other")}

\* A deterministic executor: success exactly at gas limits >= T.  Like the
\* EVM it refuses a transaction whose gas limit the sender cannot pay at the
\* transaction's gas price (an error that is neither gas-too-high nor
\* gas-too-low).
DetOutcome(e, inp, limit) ==
    IF inp.price > 0 /\ inp.allowance.some /\ limit > inp.allowance.v
        THEN ExecErr("Other")
        ELSE IF limit >= e.T
                THEN Success(Min(e.U, limit), e.R)
                ELSE CASE e.fail = "Revert" -> Revert(Min(e.failUsed, limit), "0x08c379a0")
                       [] e.fail = "Halt" -> Halt(limit, "OutOfGas")
                       [] OTHER -> ExecErr("GasTooLow")

AnyExec == [det |-> FALSE, T |-> 0, U |-> 0, R |-> 0, fail |-> "", failUsed |-> 0]

Thresholds == {MIN_TRANSACTION_GAS, MIN_TRANSACTION_GAS + GasStep + 1,
               MaxBlockGas - GasStep - 1}
DetExecs ==
    {[det |-> TRUE, T |-> t, U |-> u, R |-> r, fail |-> f, failUsed |-> fu] :
        t \in Thresholds,
        u \in {0, MIN_TRANSACTION_GAS - GasStep, MIN_TRANSACTION_GAS, MaxBlockGas},
        r \in Refunds,
        f \in {"Revert", "Halt", "GasTooLow"},
        fu \in {GasStep + GasStep}}

\* Call::transact
Transact(e, inp, limit) ==
    IF e.det THEN {DetOutcome(e, inp, limit)} ELSE AnyOutcomes(limit)

(***************************************************************************)
(* What estimate_gas_with returns.                                         *)
(***************************************************************************)
Pending == [tag |-> "Pending", gas |-> 0, err |-> "", gas_limit |-> 0, output |-> "", reason |-> ""]
OkGas(g) == [tag |-> "Ok", gas |-> g, err |-> "", gas_limit |-> 0, output |-> "", reason |-> ""]
Error(k, gl, o, h) ==
    [tag |-> "Err", gas |-> 0, err |-> k, gas_limit |-> gl, output |-> o, reason |-> h]

\* Err(err) of the executor handed on unchanged (`?`, `return err`)
Propagate(out) == Error(out.kind, 0, "", "")
RevertError(o) == Error("Revert", 0, o, "")
from_evm_halt(h, gl) == Error("Halt", gl, "", h)
GasRequiredExceedsAllowance(gl) == Error("GasRequiredExceedsAllowance", gl, "", "")
BasicOutOfGas(gl) == Error("BasicOutOfGas", gl, "", "")

\* tx_request_gas_limit.is_some() || tx_request_gas_price.is_some()
Specified == input.gas.some \/ input.price_some

(***************************************************************************)
(* Pure steps of estimate_gas_with.                                        *)
(***************************************************************************)
\* lines 65-73: the request's limit capped by the block's, or the block's
HighestPossible(rg, block) ==
    IF rg.some THEN (IF block < rg.v THEN block ELSE rg.v) ELSE block

\* u64::saturating_sub
SaturatingSub(a, b) == IF a >= b THEN a - b ELSE 0

\* a faulty variant of the optimistic limit: the call stipend is left out
OptimisticGasLimit_NoStipend(used, refund) == ((used + refund) * 64) \div 63

\* line 185
OptimisticGasLimit(used, refund) == ((used + refund + CALL_STIPEND_GAS) * 64) \div 63

\* lines 204-207: the first midpoint
FirstMid(used, hi, lo) == Min(used * 3, (hi + lo) \div 2)

\* a faulty variant of the new midpoint: the upper bound itself
NextMid_Highest(hi, lo) == hi

\* line 250
NextMid(hi, lo) == (hi + lo) \div 2

\* a faulty variant of the tolerance test: the ratio is taken ten times too
\* large (0.15)
WithinTolerance_Loose(hi, lo) == (hi - lo) * RatioDen < 10 * RatioNum * hi

\* lines 217-218: (highest - lowest) as f64 / highest as f64 < ESTIMATE_GAS_ERROR_RATIO.
\* Below 2^31 both conversions are exact and a quotient that is not exactly
\* 15/1000 differs from it by more than 1/(1000 * 2^31), far more than the
\* rounding of the division, so the f64 test is the test on the fractions.
WithinTolerance(hi, lo) == (hi - lo) * RatioDen < RatioNum * hi

\* a faulty variant of the loop's condition: the search stops while the
\* bounds are still a step apart
LoopCondition_StopsEarly(hi, lo) == lo + GasStep < hi

\* line 213
LoopCondition(hi, lo) == lo + 1 < hi

\* a faulty variant of the range update: a halt counts as a success
update_estimated_gas_range_HaltSucceeds(out, tx_limit, hi, lo) ==
    CASE out.kind \in {"Success", "Halt"} -> [hi |-> tx_limit, lo |-> lo]
      [] out.kind = "Revert" -> [hi |-> hi, lo |-> tx_limit]

\* a faulty variant of the range update: a halt leaves both bounds as they are
update_estimated_gas_range_HaltIgnored(out, tx_limit, hi, lo) ==
    CASE out.kind = "Success" -> [hi |-> tx_limit, lo |-> lo]
      [] out.kind = "Revert" -> [hi |-> hi, lo |-> tx_limit]
      [] out.kind = "Halt" -> [hi |-> hi, lo |-> lo]

\* update_estimated_gas_range, lines 320-345: the new (highest, lowest)
update_estimated_gas_range(out, tx_limit, hi, lo) ==
    CASE out.kind = "Success" -> [hi |-> tx_limit, lo |-> lo]
      [] out.kind \in {"Revert", "Halt"} -> [hi |-> hi, lo |-> tx_limit]

\* a faulty variant of the disambiguator: an error of the re-execution is
\* reported as BasicOutOfGas
map_out_of_gas_err_SwallowsError(out, req_gas_limit) ==
    CASE ~IsOk(out) -> BasicOutOfGas(req_gas_limit)
      [] out.kind = "Success" -> BasicOutOfGas(req_gas_limit)
      [] out.kind = "Revert" -> RevertError(out.output)
      [] out.kind = "Halt" -> from_evm_halt(out.reason, req_gas_limit)

\* map_out_of_gas_err, lines 293-310: the error for the re-execution's outcome
map_out_of_gas_err(out, req_gas_limit) ==
    CASE ~IsOk(out) -> Propagate(out)
      [] out.kind = "Success" -> BasicOutOfGas(req_gas_limit)
      [] out.kind = "Revert" -> RevertError(out.output)
      [] out.kind = "Halt" -> from_evm_halt(out.reason, req_gas_limit)

(***************************************************************************)
(* Block body storage: tables, bodies and the pure steps of EthStorage.    *)
(***************************************************************************)
BlockNumbers == 1..MaxBlock
Timestamps == 1..MaxTimestamp

\* Option<Vec<_>>, and what seek_exact finds in a table
NoList == [some |-> FALSE, v |-> <<>>]
SomeList(l) == [some |-> TRUE, v |-> l]

EmptyTable == [n \in BlockNumbers |-> NoList]

\* the chain specifications: Paris and Shanghai active from the first block,
\* or Paris from block MaxBlock on and Shanghai from timestamp MaxTimestamp on
ChainSpecs == {[paris_block |-> 1, shanghai_time |-> 1],
               [paris_block |-> MaxBlock, shanghai_time |-> MaxTimestamp]}

is_paris_active_at_block(cs, n) == n >= cs.paris_block
is_shanghai_active_at_timestamp(cs, t) == t >= cs.shanghai_time

TxLists == {<<>>, <<"t1">>}
OmmersLists == {<<>>, <<"u1">>}
WithdrawalsOptions == {NoList, SomeList(<<>>), SomeList(<<"w1">>)}

\* alloy_consensus::BlockBody
BlockBody(txs, ommers, withdrawals) ==
    [transactions |-> txs, ommers |-> ommers, withdrawals |-> withdrawals]

\* one element of the vector write_block_bodies takes: (block_number, Option<body>)
WriteEntries ==
    {[number |-> n, some |-> TRUE, body |-> BlockBody(<<"t1">>, o, w)] :
        n \in BlockNumbers, o \in OmmersLists, w \in WithdrawalsOptions}
    \cup {[number |-> n, some |-> FALSE, body |-> BlockBody(<<>>, <<>>, NoList)] :
        n \in BlockNumbers}

\* one element of the vector read_block_bodies takes: (header, transactions)
ReadBodyInputs ==
    {[number |-> n, timestamp |-> t, transactions |-> txs] :
        n \in BlockNumbers, t \in Timestamps, txs \in TxLists}

\* the vectors of at most k elements of S
VecsUpTo(S, k) == UNION {[1..m -> S] : m \in 0..k}

\* the largest key of a table (0: the table is empty)
LastKey(table) ==
    IF \A n \in BlockNumbers : ~table[n].some
        THEN 0
        ELSE CHOOSE n \in BlockNumbers :
                table[n].some /\ \A m \in BlockNumbers : table[m].some => m <= n

\* DbCursorRW::append (lines 118 and 124): the key must be greater than every
\* key of the table, otherwise the cursor returns an error
append_ok(table, key) == key > LastKey(table)

\* a faulty variant of append: the entry is stored without its list
append_DropsList(table, key, list) == [table EXCEPT ![key] = SomeList(<<>>)]

\* DbCursorRW::append on a key that is greater than every key of the table
append(table, key, list) == [table EXCEPT ![key] = SomeList(list)]

\* a faulty variant of the unwind: the entry of `block` itself is deleted, too
unwind_table_by_num_Inclusive(table, block) ==
    [n \in BlockNumbers |-> IF n >= block THEN NoList ELSE table[n]]

\* DbTxUnwindExt::unwind_table_by_num (lines 141-142): every entry above
\* `block` is deleted
unwind_table_by_num(table, block) ==
    [n \in BlockNumbers |-> IF n > block THEN NoList ELSE table[n]]

\* the outcome of a storage call on the tables
Outcome(om, wd, ok) == [ommers |-> om, withdrawals |-> wd, ok |-> ok]

RECURSIVE write_bodies_from(_, _, _, _)
\* lines 114-129: the loop of write_block_bodies from element i on; an append
\* that fails ends the call with the error and what was appended stays
write_bodies_from(bodies, i, om, wd) ==
    IF i > Len(bodies)
        THEN Outcome(om, wd, TRUE)
        ELSE LET e == bodies[i]
                 writes_ommers == e.some /\ e.body.ommers # <<>>
                 writes_withdrawals ==
                     e.some /\ e.body.withdrawals.some /\ e.body.withdrawals.v # <<>>
                 om1 == IF writes_ommers THEN append(om, e.number, e.body.ommers) ELSE om
                 wd1 == IF writes_withdrawals
                            THEN append(wd, e.number, e.body.withdrawals.v)
                            ELSE wd
             IN  IF writes_ommers /\ ~append_ok(om, e.number)
                     THEN Outcome(om, wd, FALSE)
                     ELSE IF writes_withdrawals /\ ~append_ok(wd, e.number)
                             THEN Outcome(om1, wd, FALSE)
                             ELSE write_bodies_from(bodies, i + 1, om1, wd1)

\* write_block_bodies, lines 104-132.  cursors_ok: the two cursors could be
\* opened (lines 110-112); otherwise the call returns the error at once.
write_block_bodies(bodies, om, wd, cursors_ok) ==
    IF cursors_ok THEN write_bodies_from(bodies, 1, om, wd) ELSE Outcome(om, wd, FALSE)

\* which of the two unwinds of one removal the database fails (0: neither)
UnwindFailures == {0, 1, 2}

\* remove_block_bodies_above, lines 134-145: the withdrawals are unwound
\* first, then the ommers; an unwind that fails ends the call with the error
remove_block_bodies_above(block, om, wd, fails) ==
    CASE fails = 1 -> Outcome(om, wd, FALSE)
      [] fails = 2 -> Outcome(om, unwind_table_by_num(wd, block), FALSE)
      [] OTHER -> Outcome(unwind_table_by_num(om, block), unwind_table_by_num(wd, block), TRUE)

\* a faulty variant of the reader: the stored ommers are returned after
\* Paris as well
read_body_OmmersAfterParis(cs, om, wd, inp) ==
    BlockBody(inp.transactions,
              om[inp.number].v,
              IF is_shanghai_active_at_timestamp(cs, inp.timestamp)
                  THEN SomeList(wd[inp.number].v)
                  ELSE NoList)

\* lines 169-190: the body of one input.  A missing entry reads as the
\* default, the empty list (unwrap_or_default).
read_body(cs, om, wd, inp) ==
    BlockBody(inp.transactions,
              IF is_paris_active_at_block(cs, inp.number)
                  THEN <<>>
                  ELSE IF om[inp.number].some THEN om[inp.number].v ELSE <<>>,
              IF is_shanghai_active_at_timestamp(cs, inp.timestamp)
                  THEN SomeList(IF wd[inp.number].some THEN wd[inp.number].v ELSE <<>>)
                  ELSE NoList)

\* read_block_bodies, lines 155-194
read_block_bodies(cs, om, wd, inputs) ==
    [i \in 1..Len(inputs) |-> read_body(cs, om, wd, inputs[i])]

\* a storage call: its name, its arguments, whether it returned Ok and the
\* bodies it returned
Call(op, bodies, block, inputs, ok, out) ==
    [op |-> op, bodies |-> bodies, block |-> block, inputs |-> inputs,
     ok |-> ok, out |-> out]
NoCall == Call("none", <<>>, 0, <<>>, TRUE, <<>>)

\* no estimation is running
EstimateAtRest ==
    /\ pc = "idle"
    /\ exec = AnyExec
    /\ input = Request(None, FALSE, Block, TRUE, "Call", 0, Block, "None", Some(Block))
    /\ tx_gas_limit = 0
    /\ highest_gas_limit = 0
    /\ lowest_gas_limit = 0
    /\ gas_used = 0
    /\ mid_gas_limit = 0
    /\ result = Pending
    /\ calls = 0
    /\ last_limit = 0
    /\ last_kind = "none"
    /\ probe_res = NoOutcome
    /\ probe_limit = 0
    /\ retry_res = NoOutcome
    /\ opt_limit = 0
    /\ hi_kind = "none"
    /\ evm_env = [disable_eip3607 |-> FALSE, disable_base_fee |-> FALSE]
    /\ request_nonce = None
    /\ last_env = NoEnvironment

\* the storage is not in use
StorageAtRest ==
    /\ chain_spec = [paris_block |-> 1, shanghai_time |-> 1]
    /\ ommers_table = EmptyTable
    /\ withdrawals_table = EmptyTable
    /\ call = NoCall

(***************************************************************************)
(* The request.                                                            *)
(***************************************************************************)
Init ==
    /\ StorageAtRest
    /\ pc = "start"
    /\ exec \in {AnyExec} \cup DetExecs
    /\ input \in Requests
    /\ tx_gas_limit = 0
    /\ highest_gas_limit = 0
    /\ lowest_gas_limit = 0
    /\ gas_used = 0
    /\ mid_gas_limit = 0
    /\ result = Pending
    /\ calls = 0
    /\ last_limit = 0
    /\ last_kind = "none"
    /\ probe_res = NoOutcome
    /\ probe_limit = 0
    /\ retry_res = NoOutcome
    /\ opt_limit = 0
    /\ hi_kind = "none"
    /\ evm_env \in CfgEnvs
    /\ request_nonce \in Nonces
    /\ last_env = NoEnvironment

\* the request ends with r
Return(r) == pc' = "done" /\ result' = r

\* one executor invocation at gas limit `limit` answered `out`
Invoked(limit, out) ==
    /\ calls' = calls + 1
    /\ last_limit' = limit
    /\ last_kind' = out.kind
    /\ last_env' = Environment(evm_env, request_nonce, input)

NotInvoked == UNCHANGED <<calls, last_limit, last_kind, last_env>>

\* lines 47-82: the ceiling, create_txn_env and the state overrides
Prepare ==
    /\ pc = "start"
    /\ evm_env' = ForceFlags(evm_env)
    /\ request_nonce' = None
    /\ highest_gas_limit' = HighestPossible(input.gas, input.block)
    /\ \E created \in BOOLEAN, overrides \in {"none", "ok", "malformed"} :
          IF ~created
              THEN /\ Return(Error("CreateTxnEnv", 0, "", ""))
                   /\ UNCHANGED tx_gas_limit
              ELSE /\ tx_gas_limit' = input.gl
                   /\ IF overrides = "malformed"
                          THEN Return(Error("StateOverride", 0, "", ""))
                          ELSE pc' = "short" /\ UNCHANGED result
    /\ NotInvoked
    /\ UNCHANGED <<storage_vars, exec, input, lowest_gas_limit, gas_used, mid_gas_limit,
                   probe_res, probe_limit, retry_res, opt_limit, hi_kind>>

\* a faulty variant of the cap: the allowance replaces the ceiling, also when
\* it is the larger of the two
CapHighest_TakesAllowance(hi, inp) ==
    IF inp.price > 0 THEN inp.allowance.v ELSE hi

\* lines 110-114: the ceiling capped by the caller's allowance when a gas
\* price is charged
CapHighest(hi, inp) ==
    IF inp.price > 0 THEN Min(hi, inp.allowance.v) ELSE hi

\* a faulty variant of the short-circuit's conditions: the callee's code is
\* not looked at
ShortCircuitApplies_IgnoresCode ==
    /\ input.empty
    /\ input.kind = "Call"

\* lines 85-89: the conditions under which the scratch copy is executed
ShortCircuitApplies ==
    /\ input.empty
    /\ input.kind = "Call"
    /\ input.code \in {"None", "Empty"}

\* lines 84-105: the short-circuit for a transfer to an account without code
ShortCircuit ==
    /\ pc = "short"
    /\ IF ShortCircuitApplies
          THEN \E out \in Transact(exec, input, MIN_TRANSACTION_GAS) :
                  /\ Invoked(MIN_TRANSACTION_GAS, out)
                  /\ IF out.kind = "Success"
                        THEN Return(OkGas(MIN_TRANSACTION_GAS))
                        ELSE pc' = "cap" /\ UNCHANGED result
          ELSE /\ NotInvoked
               /\ pc' = "cap"
               /\ UNCHANGED result
    /\ UNCHANGED <<storage_vars, exec, input, evm_env, request_nonce, tx_gas_limit, highest_gas_limit, lowest_gas_limit,
                   gas_used, mid_gas_limit, probe_res, probe_limit, retry_res,
                   opt_limit, hi_kind>>

\* lines 107-117: the ceiling capped by what the caller can pay, and the
\* working transaction's gas limit capped by the ceiling
CapCeiling ==
    /\ pc = "cap"
    /\ IF input.price > 0 /\ ~input.allowance.some
          THEN /\ Return(Error("Provider", 0, "", ""))
               /\ UNCHANGED <<highest_gas_limit, tx_gas_limit>>
          ELSE /\ highest_gas_limit' = CapHighest(highest_gas_limit, input)
               /\ tx_gas_limit' = Min(tx_gas_limit, highest_gas_limit')
               /\ pc' = "probe"
               /\ UNCHANGED result
    /\ NotInvoked
    /\ UNCHANGED <<storage_vars, exec, input, evm_env, request_nonce, lowest_gas_limit, gas_used, mid_gas_limit,
                   probe_res, probe_limit, retry_res, opt_limit, hi_kind>>

\* a faulty variant of the probe: a revert is never handed to the disambiguator
ProbeStep_RevertNeverRetries(out, specified, limit) ==
    CASE is_gas_too_high(out) /\ specified -> [pc |-> "disamb", result |-> Pending]
      [] ~(is_gas_too_high(out) /\ specified) /\ is_gas_too_low(out) ->
            [pc |-> "done", result |-> GasRequiredExceedsAllowance(limit)]
      [] ~(is_gas_too_high(out) /\ specified) /\ ~is_gas_too_low(out) /\ ~IsOk(out) ->
            [pc |-> "done", result |-> Propagate(out)]
      [] out.kind = "Halt" -> [pc |-> "done", result |-> from_evm_halt(out.reason, limit)]
      [] out.kind = "Revert" -> [pc |-> "done", result |-> RevertError(out.output)]
      [] out.kind = "Success" -> [pc |-> "optimistic", result |-> Pending]

\* a faulty variant of the probe: a gas-too-low error is handed to the
\* disambiguator when the request specified a gas limit or a gas price
ProbeStep_GasTooLowRetries(out, specified, limit) ==
    CASE (is_gas_too_high(out) \/ is_gas_too_low(out)) /\ specified ->
            [pc |-> "disamb", result |-> Pending]
      [] ~specified /\ is_gas_too_low(out) ->
            [pc |-> "done", result |-> GasRequiredExceedsAllowance(limit)]
      [] ~(is_gas_too_high(out) /\ specified) /\ ~is_gas_too_low(out) /\ ~IsOk(out) ->
            [pc |-> "done", result |-> Propagate(out)]
      [] out.kind = "Halt" -> [pc |-> "done", result |-> from_evm_halt(out.reason, limit)]
      [] out.kind = "Revert" ->
            IF specified
                THEN [pc |-> "disamb", result |-> Pending]
                ELSE [pc |-> "done", result |-> RevertError(out.output)]
      [] out.kind = "Success" -> [pc |-> "optimistic", result |-> Pending]

\* a faulty variant of the probe: a halt is handed to the disambiguator like
\* a revert
ProbeStep_HaltRetries(out, specified, limit) ==
    CASE is_gas_too_high(out) /\ specified -> [pc |-> "disamb", result |-> Pending]
      [] ~(is_gas_too_high(out) /\ specified) /\ is_gas_too_low(out) ->
            [pc |-> "done", result |-> GasRequiredExceedsAllowance(limit)]
      [] ~(is_gas_too_high(out) /\ specified) /\ ~is_gas_too_low(out) /\ ~IsOk(out) ->
            [pc |-> "done", result |-> Propagate(out)]
      [] out.kind = "Halt" ->
            IF specified
                THEN [pc |-> "disamb", result |-> Pending]
                ELSE [pc |-> "done", result |-> from_evm_halt(out.reason, limit)]
      [] out.kind = "Revert" ->
            IF specified
                THEN [pc |-> "disamb", result |-> Pending]
                ELSE [pc |-> "done", result |-> RevertError(out.output)]
      [] out.kind = "Success" -> [pc |-> "optimistic", result |-> Pending]

\* a faulty variant of the probe: a gas-too-high error or a revert is handed
\* to the disambiguator whether or not the request specified anything
ProbeStep_UnspecifiedRetries(out, specified, limit) ==
    CASE is_gas_too_high(out) -> [pc |-> "disamb", result |-> Pending]
      [] is_gas_too_low(out) ->
            [pc |-> "done", result |-> GasRequiredExceedsAllowance(limit)]
      [] ~is_gas_too_high(out) /\ ~is_gas_too_low(out) /\ ~IsOk(out) ->
            [pc |-> "done", result |-> Propagate(out)]
      [] out.kind = "Halt" -> [pc |-> "done", result |-> from_evm_halt(out.reason, limit)]
      [] out.kind = "Revert" -> [pc |-> "disamb", result |-> Pending]
      [] out.kind = "Success" -> [pc |-> "optimistic", result |-> Pending]

\* lines 122-164: what the probe's outcome decides: the disambiguator, an
\* error, or the search
ProbeStep(out, specified, limit) ==
    CASE is_gas_too_high(out) /\ specified -> [pc |-> "disamb", result |-> Pending]
      [] ~(is_gas_too_high(out) /\ specified) /\ is_gas_too_low(out) ->
            [pc |-> "done", result |-> GasRequiredExceedsAllowance(limit)]
      [] ~(is_gas_too_high(out) /\ specified) /\ ~is_gas_too_low(out) /\ ~IsOk(out) ->
            [pc |-> "done", result |-> Propagate(out)]
      [] out.kind = "Halt" -> [pc |-> "done", result |-> from_evm_halt(out.reason, limit)]
      [] out.kind = "Revert" ->
            IF specified
                THEN [pc |-> "disamb", result |-> Pending]
                ELSE [pc |-> "done", result |-> RevertError(out.output)]
      [] out.kind = "Success" -> [pc |-> "optimistic", result |-> Pending]

\* lines 122-177: the probe at the ceiling
Probe ==
    /\ pc = "probe"
    /\ \E out \in Transact(exec, input, tx_gas_limit) :
          /\ Invoked(tx_gas_limit, out)
          /\ probe_res' = out
          /\ probe_limit' = tx_gas_limit
          /\ pc' = ProbeStep(out, Specified, tx_gas_limit).pc
          /\ result' = ProbeStep(out, Specified, tx_gas_limit).result
          /\ IF out.kind = "Success"
                THEN /\ highest_gas_limit' = tx_gas_limit
                     /\ gas_used' = out.gas_used
                     /\ lowest_gas_limit' = SaturatingSub(out.gas_used, 1)
                     /\ hi_kind' = out.kind
                ELSE UNCHANGED <<highest_gas_limit, lowest_gas_limit, gas_used, hi_kind>>
    /\ UNCHANGED <<storage_vars, exec, input, evm_env, request_nonce, tx_gas_limit, mid_gas_limit, retry_res, opt_limit>>

\* lines 280-311: map_out_of_gas_err, called at lines 131 and 158
Disambiguate ==
    /\ pc = "disamb"
    /\ \E out \in Transact(exec, input, input.block) :
          /\ Invoked(input.block, out)
          /\ retry_res' = out
          /\ Return(map_out_of_gas_err(out, tx_gas_limit))
    /\ UNCHANGED <<storage_vars, exec, input, evm_env, request_nonce, tx_gas_limit, highest_gas_limit, lowest_gas_limit,
                   gas_used, mid_gas_limit, probe_res, probe_limit, opt_limit, hi_kind>>

\* lines 185-207: the optimistic guess and the first midpoint
Optimistic ==
    /\ pc = "optimistic"
    /\ LET opt == OptimisticGasLimit(gas_used, probe_res.gas_refunded) IN
       IF opt < highest_gas_limit
          THEN \E out \in Transact(exec, input, opt) :
                  /\ Invoked(opt, out)
                  /\ tx_gas_limit' = opt
                  /\ opt_limit' = opt
                  /\ IF ~IsOk(out)
                        THEN /\ Return(Propagate(out))
                             /\ UNCHANGED <<gas_used, highest_gas_limit, lowest_gas_limit,
                                            mid_gas_limit, hi_kind>>
                        ELSE LET r == update_estimated_gas_range(out, opt,
                                          highest_gas_limit, lowest_gas_limit) IN
                             /\ gas_used' = out.gas_used
                             /\ highest_gas_limit' = r.hi
                             /\ lowest_gas_limit' = r.lo
                             /\ hi_kind' = IF r.hi # highest_gas_limit THEN out.kind ELSE hi_kind
                             /\ mid_gas_limit' = FirstMid(out.gas_used, r.hi, r.lo)
                             /\ pc' = "loop"
                             /\ UNCHANGED result
          ELSE /\ NotInvoked
               /\ mid_gas_limit' = FirstMid(gas_used, highest_gas_limit, lowest_gas_limit)
               /\ pc' = "loop"
               /\ UNCHANGED <<tx_gas_limit, opt_limit, gas_used, highest_gas_limit,
                              lowest_gas_limit, hi_kind, result>>
    /\ UNCHANGED <<storage_vars, exec, input, evm_env, request_nonce, probe_res, probe_limit, retry_res>>

\* a faulty variant of the iteration: a gas-too-low error ends the request
\* with the error, as any other error does
LoopIter_GasTooLowEnds ==
    /\ pc = "loop"
    /\ LoopCondition(highest_gas_limit, lowest_gas_limit)
    /\ ~WithinTolerance(highest_gas_limit, lowest_gas_limit)
    /\ tx_gas_limit' = mid_gas_limit
    /\ \E out \in Transact(exec, input, mid_gas_limit) :
          /\ Invoked(mid_gas_limit, out)
          /\ CASE is_gas_too_high(out) ->
                    /\ highest_gas_limit' = mid_gas_limit
                    /\ hi_kind' = out.kind
                    /\ mid_gas_limit' = NextMid(highest_gas_limit', lowest_gas_limit)
                    /\ UNCHANGED <<lowest_gas_limit, pc, result>>
               [] ~is_gas_too_high(out) /\ ~IsOk(out) ->
                    /\ Return(Propagate(out))
                    /\ UNCHANGED <<highest_gas_limit, lowest_gas_limit, mid_gas_limit, hi_kind>>
               [] IsOk(out) ->
                    LET r == update_estimated_gas_range(out, mid_gas_limit,
                                 highest_gas_limit, lowest_gas_limit) IN
                    /\ highest_gas_limit' = r.hi
                    /\ lowest_gas_limit' = r.lo
                    /\ hi_kind' = IF r.hi # highest_gas_limit THEN out.kind ELSE hi_kind
                    /\ mid_gas_limit' = NextMid(r.hi, r.lo)
                    /\ UNCHANGED <<pc, result>>
    /\ UNCHANGED <<storage_vars, exec, input, evm_env, request_nonce, gas_used, probe_res, probe_limit, retry_res, opt_limit>>

\* lines 213-251: one iteration of the binary search
LoopIter ==
    /\ pc = "loop"
    /\ LoopCondition(highest_gas_limit, lowest_gas_limit)
    /\ ~WithinTolerance(highest_gas_limit, lowest_gas_limit)
    /\ tx_gas_limit' = mid_gas_limit
    /\ \E out \in Transact(exec, input, mid_gas_limit) :
          /\ Invoked(mid_gas_limit, out)
          /\ CASE is_gas_too_high(out) ->
                    /\ highest_gas_limit' = mid_gas_limit
                    /\ hi_kind' = out.kind
                    /\ mid_gas_limit' = NextMid(highest_gas_limit', lowest_gas_limit)
                    /\ UNCHANGED <<lowest_gas_limit, pc, result>>
               [] is_gas_too_low(out) ->
                    /\ lowest_gas_limit' = mid_gas_limit
                    /\ mid_gas_limit' = NextMid(highest_gas_limit, lowest_gas_limit')
                    /\ UNCHANGED <<highest_gas_limit, hi_kind, pc, result>>
               [] ~is_gas_too_high(out) /\ ~is_gas_too_low(out) /\ ~IsOk(out) ->
                    /\ Return(Propagate(out))
                    /\ UNCHANGED <<highest_gas_limit, lowest_gas_limit, mid_gas_limit, hi_kind>>
               [] IsOk(out) ->
                    LET r == update_estimated_gas_range(out, mid_gas_limit,
                                 highest_gas_limit, lowest_gas_limit) IN
                    /\ highest_gas_limit' = r.hi
                    /\ lowest_gas_limit' = r.lo
                    /\ hi_kind' = IF r.hi # highest_gas_limit THEN out.kind ELSE hi_kind
                    /\ mid_gas_limit' = NextMid(r.hi, r.lo)
                    /\ UNCHANGED <<pc, result>>
    /\ UNCHANGED <<storage_vars, exec, input, evm_env, request_nonce, gas_used, probe_res, probe_limit, retry_res, opt_limit>>

\* lines 213-221 and 253: the loop ends and highest_gas_limit is returned
LoopExit ==
    /\ pc = "loop"
    /\ \/ ~LoopCondition(highest_gas_limit, lowest_gas_limit)
       \/ WithinTolerance(highest_gas_limit, lowest_gas_limit)
    /\ Return(OkGas(highest_gas_limit))
    /\ NotInvoked
    /\ UNCHANGED <<storage_vars, exec, input, evm_env, request_nonce, tx_gas_limit, highest_gas_limit, lowest_gas_limit,
                   gas_used, mid_gas_limit, probe_res, probe_limit, retry_res,
                   opt_limit, hi_kind>>

Next ==
    \/ Prepare
    \/ ShortCircuit
    \/ CapCeiling
    \/ Probe
    \/ Disambiguate
    \/ Optimistic
    \/ LoopIter
    \/ LoopExit

Spec == Init /\ [][Next]_vars

\* estimate_gas_with runs on its own thread (spawn_blocking_io, line 269) and
\* every call it makes returns: a request that can take a step takes it
FairSpec == Init /\ [][Next]_vars /\ WF_vars(Next)

(***************************************************************************)
(* The block body storage as a state machine.                              *)
(***************************************************************************)
StorageInit ==
    /\ EstimateAtRest
    /\ chain_spec \in ChainSpecs
    /\ ommers_table = EmptyTable
    /\ withdrawals_table = EmptyTable
    /\ call = NoCall

\* write_block_bodies, lines 104-132
WriteBlockBodies ==
    /\ call.op = "none"
    /\ \E bodies \in VecsUpTo(WriteEntries, MaxBodies), cursors_ok \in BOOLEAN :
          LET r == write_block_bodies(bodies, ommers_table, withdrawals_table, cursors_ok) IN
          /\ ommers_table' = r.ommers
          /\ withdrawals_table' = r.withdrawals
          /\ call' = Call("write", bodies, 0, <<>>, r.ok, <<>>)
    /\ UNCHANGED <<estimate_vars, chain_spec>>

\* remove_block_bodies_above, lines 134-145
RemoveBlockBodiesAbove ==
    /\ call.op = "none"
    /\ \E block \in 0..MaxBlock, fails \in UnwindFailures :
          LET r == remove_block_bodies_above(block, ommers_table, withdrawals_table, fails) IN
          /\ ommers_table' = r.ommers
          /\ withdrawals_table' = r.withdrawals
          /\ call' = Call("remove", <<>>, block, <<>>, r.ok, <<>>)
    /\ UNCHANGED <<estimate_vars, chain_spec>>

\* read_block_bodies, lines 155-194; a cursor or a seek the database fails
\* (lines 167, 174, 186-187) ends the call with the error and no bodies
ReadBlockBodies ==
    /\ call.op = "none"
    /\ \E inputs \in VecsUpTo(ReadBodyInputs, MaxBodies), db_ok \in BOOLEAN :
          call' = IF db_ok
                     THEN Call("read", <<>>, 0, inputs, TRUE,
                               read_block_bodies(chain_spec, ommers_table,
                                                 withdrawals_table, inputs))
                     ELSE Call("read", <<>>, 0, inputs, FALSE, <<>>)
    /\ UNCHANGED <<estimate_vars, chain_spec, ommers_table, withdrawals_table>>

\* the caller takes the result of the call
TakeResult ==
    /\ call.op # "none"
    /\ call' = NoCall
    /\ UNCHANGED <<estimate_vars, chain_spec, ommers_table, withdrawals_table>>

StorageNext ==
    \/ WriteBlockBodies
    \/ RemoveBlockBodiesAbove
    \/ ReadBlockBodies
    \/ TakeResult

StorageSpec == StorageInit /\ [][StorageNext]_vars

(***************************************************************************)
(* The general path (lines 107-253) as a function of the request, for a    *)
(* deterministic executor.                                                 *)
(***************************************************************************)
RECURSIVE BinarySearch(_, _, _, _, _)
\* lines 213-253
BinarySearch(e, inp, hi, lo, mid) ==
    IF ~LoopCondition(hi, lo) \/ WithinTolerance(hi, lo)
        THEN OkGas(hi)
        ELSE LET out == DetOutcome(e, inp, mid) IN
             CASE is_gas_too_high(out) -> BinarySearch(e, inp, mid, lo, NextMid(mid, lo))
               [] is_gas_too_low(out) -> BinarySearch(e, inp, hi, mid, NextMid(hi, mid))
               [] ~is_gas_too_high(out) /\ ~is_gas_too_low(out) /\ ~IsOk(out) -> Propagate(out)
               [] IsOk(out) ->
                    LET r == update_estimated_gas_range(out, mid, hi, lo) IN
                    BinarySearch(e, inp, r.hi, r.lo, NextMid(r.hi, r.lo))

\* lines 171-253: the search after a successful probe `out` at `limit`
SearchAfterProbe(e, inp, limit, out) ==
    LET lo0 == SaturatingSub(out.gas_used, 1)
        opt == OptimisticGasLimit(out.gas_used, out.gas_refunded)
    IN  IF opt < limit
            THEN LET o == DetOutcome(e, inp, opt) IN
                 IF ~IsOk(o)
                     THEN Propagate(o)
                     ELSE LET r == update_estimated_gas_range(o, opt, limit, lo0) IN
                          BinarySearch(e, inp, r.hi, r.lo, FirstMid(o.gas_used, r.hi, r.lo))
            ELSE BinarySearch(e, inp, limit, lo0, FirstMid(out.gas_used, limit, lo0))

\* lines 171-177 and 203-253: the search after a successful probe `out` at
\* `limit` when the optimistic guess (lines 185-201) is left out
SearchWithoutOptimistic(e, inp, limit, out) ==
    LET lo0 == SaturatingSub(out.gas_used, 1)
    IN  BinarySearch(e, inp, limit, lo0, FirstMid(out.gas_used, limit, lo0))

\* lines 107-253
GeneralPath(e, inp) ==
    IF inp.price > 0 /\ ~inp.allowance.some
        THEN Error("Provider", 0, "", "")
        ELSE LET limit == Min(inp.gl, CapHighest(HighestPossible(inp.gas, inp.block), inp))
                 out == DetOutcome(e, inp, limit)
                 step == ProbeStep(out, inp.gas.some \/ inp.price_some, limit)
             IN  CASE step.pc = "done" -> step.result
                   [] step.pc = "disamb" -> map_out_of_gas_err(DetOutcome(e, inp, inp.block), limit)
                   [] step.pc = "optimistic" -> SearchAfterProbe(e, inp, limit, out)

\* The steps of the request and the function agree on every request that
\* reaches the general path.
GeneralPathAgrees ==
    (exec.det /\ pc = "done" /\ (probe_res.kind # "none" \/ result.err = "Provider"))
        => result = GeneralPath(exec, input)

(***************************************************************************)
(* The claims.                                                             *)
(***************************************************************************)
\* the request returned from the short-circuit / from the search loop
ReturnedByShortCircuit == pc = "done" /\ result.tag = "Ok" /\ probe_res.kind = "none"
ReturnedBySearch == pc = "done" /\ result.tag = "Ok" /\ probe_res.kind = "Success"

\* C1: whenever the request returns Ok(g), some executor invocation of the
\* request ran with gas limit exactly g and returned Success, whatever the
\* executor answered along the way.
C1_ReturnedGasSucceeded ==
    /\ ReturnedByShortCircuit => (last_kind = "Success" /\ last_limit = result.gas)
    /\ ReturnedBySearch => (hi_kind = "Success" /\ highest_gas_limit = result.gas)

\* the bounds narrow in one step of the search
NarrowingStep ==
    pc \in {"optimistic", "loop"} =>
        /\ lowest_gas_limit' >= lowest_gas_limit
        /\ highest_gas_limit' <= highest_gas_limit
        /\ (pc = "loop" /\ calls' # calls) => lowest_gas_limit < highest_gas_limit

\* C2: from the successful probe to the return lowest_gas_limit never
\* decreases, highest_gas_limit never increases, and lowest_gas_limit is
\* below highest_gas_limit whenever an iteration of the loop starts.
C2_MonotonicNarrowing == [][NarrowingStep]_vars

\* the returned value is at least the threshold of the executor and exceeds
\* it by less than ESTIMATE_GAS_ERROR_RATIO of itself
WithinRatioOfThreshold ==
    /\ result.gas >= exec.T
    /\ (result.gas - exec.T) * 1000 < 15 * result.gas

\* C3 as stated: for every deterministic executor that succeeds exactly at
\* gas limits >= T, a value g returned by the search has g >= T and
\* (g - T) / g < ESTIMATE_GAS_ERROR_RATIO.
C3_MinimalWithinTolerance_AsStated ==
    (exec.det /\ ReturnedBySearch) => WithinRatioOfThreshold

\* C3: for a deterministic executor that succeeds exactly at gas limits >= T
\* and whose successful probe reports gas_used <= T, a value g returned by
\* the search has g >= T and (g - T) / g < ESTIMATE_GAS_ERROR_RATIO.
C3_MinimalWithinTolerance ==
    (exec.det /\ ReturnedBySearch /\ probe_res.gas_used <= exec.T) => WithinRatioOfThreshold

\* a search of several iterations that returned a value above the threshold
C3_Witness ==
    /\ exec.det
    /\ ReturnedBySearch
    /\ probe_res.gas_used <= exec.T
    /\ opt_limit > 0
    /\ calls >= 5
    /\ result.gas > exec.T

\* C4 as stated: a value returned by the short-circuit equals what the
\* general path returns for the same request, state and executor.
C4_ShortCircuitEqualsGeneralPath_AsStated ==
    (exec.det /\ ReturnedByShortCircuit) => result = GeneralPath(exec, input)

\* C4: for a deterministic executor that succeeds exactly at gas limits >=
\* MIN_TRANSACTION_GAS, whenever the short-circuit returns and the general
\* path returns a value g for the same request, the short-circuit's value is
\* at most g, and (g - value) / g < ESTIMATE_GAS_ERROR_RATIO when the
\* executor reports gas_used no greater than its threshold.
C4_ShortCircuitAtMostGeneralPath ==
    (exec.det /\ exec.T = 21000 /\ ReturnedByShortCircuit
        /\ GeneralPath(exec, input).tag = "Ok")
    => LET g == GeneralPath(exec, input).gas IN
       /\ result.gas <= g
       /\ exec.U <= exec.T => (g - result.gas) * 1000 < 15 * g

\* the short-circuit returned where the general path returns a larger value
C4_Witness ==
    /\ exec.det
    /\ exec.T = 21000
    /\ exec.U <= exec.T
    /\ ReturnedByShortCircuit
    /\ GeneralPath(exec, input).tag = "Ok"
    /\ GeneralPath(exec, input).gas > result.gas

\* the conditions of the short-circuit, read from the request and the state
PlainTransfer ==
    input.empty /\ input.kind = "Call" /\ input.code \in {"None", "Empty"}

ShortCircuitStep ==
    /\ pc = "short" =>
          IF PlainTransfer
              THEN /\ calls' = calls + 1
                   /\ last_limit' = 21000
                   /\ IF last_kind' = "Success"
                         THEN pc' = "done" /\ result' = OkGas(21000)
                         ELSE /\ pc' = "cap"
                              /\ result' = Pending
                              /\ tx_gas_limit' = tx_gas_limit
                              /\ highest_gas_limit' = highest_gas_limit
              ELSE /\ calls' = calls
                   /\ pc' = "cap"
                   /\ result' = Pending
                   /\ tx_gas_limit' = tx_gas_limit
                   /\ highest_gas_limit' = highest_gas_limit
    /\ pc = "done" => calls' = calls

\* C5: for a transaction with empty input that is a Call to an account whose
\* code is absent or empty, a successful execution of the scratch copy at
\* MIN_TRANSACTION_GAS makes the request return MIN_TRANSACTION_GAS after
\* that one invocation and no invocation follows; in every other case the
\* working transaction's gas limit is unchanged and the general path runs.
C5_ShortCircuit == [][ShortCircuitStep]_vars

\* the short-circuit returned after its single invocation
C5_Witness ==
    /\ PlainTransfer
    /\ ReturnedByShortCircuit
    /\ calls = 1
    /\ last_limit = 21000
    /\ result.gas = 21000

\* the number of invocations made when the probe has run
CallsAtProbe == IF PlainTransfer THEN 2 ELSE 1

\* the request specified a gas limit or a gas price
RequestSpecified == input.gas.some \/ input.price_some

\* the error the disambiguator yields for the outcome of its re-execution
\* of a transaction that carried gas limit `requested`
DisambiguatorVerdict(out, requested) ==
    CASE out.kind = "Success" ->
            [tag |-> "Err", gas |-> 0, err |-> "BasicOutOfGas", gas_limit |-> requested,
             output |-> "", reason |-> ""]
      [] out.kind = "Revert" ->
            [tag |-> "Err", gas |-> 0, err |-> "Revert", gas_limit |-> 0,
             output |-> out.output, reason |-> ""]
      [] out.kind = "Halt" ->
            [tag |-> "Err", gas |-> 0, err |-> "Halt", gas_limit |-> requested,
             output |-> "", reason |-> out.reason]
      [] OTHER ->
            [tag |-> "Err", gas |-> 0, err |-> out.kind, gas_limit |-> 0,
             output |-> "", reason |-> ""]

\* C6: when the probe reverts, a request that specified neither a gas limit
\* nor a gas price fails with a Revert error carrying the probe's output and
\* no invocation follows the probe; a request that specified one of them
\* ends with the error of the disambiguator.  No gas value is returned.
C6_ProbeRevert ==
    probe_res.kind = "Revert" =>
        /\ result.tag # "Ok"
        /\ IF ~RequestSpecified
              THEN /\ pc = "done"
                   /\ result = [tag |-> "Err", gas |-> 0, err |-> "Revert", gas_limit |-> 0,
                                output |-> probe_res.output, reason |-> ""]
                   /\ retry_res.kind = "none"
                   /\ calls = CallsAtProbe
                   /\ last_limit = probe_limit
              ELSE \/ pc = "disamb" /\ result = Pending /\ calls = CallsAtProbe
                   \/ /\ pc = "done"
                      /\ retry_res.kind # "none"
                      /\ calls = CallsAtProbe + 1
                      /\ result = DisambiguatorVerdict(retry_res, probe_limit)

\* the probe reverted on a request that specified a gas limit and the
\* re-execution at the block's gas limit succeeded
C6_Witness ==
    /\ probe_res.kind = "Revert"
    /\ input.gas.some
    /\ pc = "done"
    /\ retry_res.kind = "Success"
    /\ result.err = "BasicOutOfGas"

\* C7: when the probe fails with a gas-too-low error the request fails at
\* once with GasRequiredExceedsAllowance carrying the gas limit of the probe,
\* without the disambiguator and without another invocation, whether or not
\* a gas limit or a gas price was specified.
C7_ProbeGasTooLow ==
    probe_res.kind = "GasTooLow" =>
        /\ pc = "done"
        /\ result = [tag |-> "Err", gas |-> 0, err |-> "GasRequiredExceedsAllowance",
                     gas_limit |-> probe_limit, output |-> "", reason |-> ""]
        /\ probe_limit = last_limit
        /\ probe_limit <= input.block
        /\ input.gas.some => probe_limit <= input.gas.v
        /\ input.price > 0 => probe_limit <= input.allowance.v
        /\ retry_res.kind = "none"
        /\ calls = CallsAtProbe

\* the probe was too low on gas on a request that specified a gas price and
\* whose ceiling the allowance capped
C7_Witness ==
    /\ probe_res.kind = "GasTooLow"
    /\ input.price_some
    /\ probe_limit = input.allowance.v
    /\ probe_limit < input.block
    /\ pc = "done"

DisambiguateStep ==
    pc = "disamb" =>
        /\ calls' = calls + 1
        /\ last_limit' = input.block
        /\ pc' = "done"
        /\ result'.tag = "Err"
        /\ result' = DisambiguatorVerdict(retry_res', tx_gas_limit)

\* C8: map_out_of_gas_err makes exactly one invocation, at the block's gas
\* limit, and always yields an error: BasicOutOfGas with the gas limit the
\* transaction came with on Success, the Revert error with the output of the
\* re-execution on Revert, the halt error of its reason on Halt, and the
\* executor's error itself on an error.
C8_Disambiguator == [][DisambiguateStep]_vars

\* the disambiguator ran on a transaction capped below the block's limit
\* and its re-execution halted
C8_Witness ==
    /\ pc = "done"
    /\ retry_res.kind = "Halt"
    /\ last_limit = input.block
    /\ probe_limit < input.block
    /\ result.err = "Halt"
    /\ result.gas_limit = probe_limit

\* C9: when the probe halts the request fails at once with the halt error
\* of the probe's halt reason and gas limit, without the disambiguator and
\* without another invocation, also when a gas limit or gas price was
\* specified.
C9_ProbeHalt ==
    probe_res.kind = "Halt" =>
        /\ pc = "done"
        /\ result = [tag |-> "Err", gas |-> 0, err |-> "Halt", gas_limit |-> probe_limit,
                     output |-> "", reason |-> probe_res.reason]
        /\ retry_res.kind = "none"
        /\ calls = CallsAtProbe
        /\ last_limit = probe_limit

\* the probe halted on a request that specified a gas limit
C9_Witness ==
    /\ probe_res.kind = "Halt"
    /\ input.gas.some
    /\ pc = "done"
    /\ result.err = "Halt"

\* C10: no error the request ends with is a raw gas-too-high or gas-too-low
\* error of the executor.
C10_NoRawClassificationError ==
    (pc = "done" /\ result.tag = "Err") => result.err \notin {"GasTooHigh", "GasTooLow"}

\* what an infrastructure error at the current step requires of the step
InfrastructureErrorStep ==
    \* an executor invocation failed with an error that is neither
    \* gas-too-high nor gas-too-low
    /\ (calls' = calls + 1 /\ last_kind' = "Other") =>
            /\ pc' = "done"
            /\ result' = [tag |-> "Err", gas |-> 0, err |-> "Other", gas_limit |-> 0,
                          output |-> "", reason |-> ""]
    \* the lookup of the callee's code failed
    /\ (pc = "short" /\ input.empty /\ input.kind = "Call" /\ input.code = "Err") =>
            /\ pc' = "done"
            /\ result'.tag = "Err"
            /\ calls' = calls
    \* the lookup of the sender's balance failed
    /\ (pc = "cap" /\ input.price > 0 /\ ~input.allowance.some) =>
            /\ pc' = "done"
            /\ result'.err = "Provider"
            /\ calls' = calls
    \* the request has ended
    /\ pc = "done" => (calls' = calls /\ result' = result)

\* C11: a failed state read (code of the callee, balance of the sender), a
\* failed application of the overrides or an executor invocation that fails
\* with an infrastructure error ends the request at once with that error, in
\* the short-circuit as anywhere else: no invocation follows and no gas value
\* is returned.
C11_InfrastructureErrorsAbort == [][InfrastructureErrorStep]_vars

\* C12: every executor invocation of the request (short-circuit, probe,
\* optimistic guess, iterations of the search, disambiguator) is handed an
\* environment with disable_eip3607 and disable_base_fee set, whatever the
\* caller passed, and a transaction built after the request's nonce was
\* cleared; between the invocations of one request only the gas limit of the
\* transaction differs.
C12_ForcedEnvironment ==
    /\ pc # "start" =>
          /\ evm_env.disable_eip3607
          /\ evm_env.disable_base_fee
          /\ request_nonce.some = FALSE
    /\ calls > 0 =>
          /\ last_env.disable_eip3607
          /\ last_env.disable_base_fee
          /\ last_env.nonce.some = FALSE
          /\ last_env.tx = [empty |-> input.empty, kind |-> input.kind, price |-> input.price]

\* the disambiguator ran after the probe: the last of at least two
\* invocations got the forced environment
C12_Witness ==
    /\ pc = "done"
    /\ calls >= 2
    /\ retry_res.kind # "none"
    /\ last_limit = input.block
    /\ last_env.disable_eip3607
    /\ last_env.disable_base_fee
    /\ last_env.nonce.some = FALSE

\* C13 as stated: for a deterministic executor that succeeds exactly at gas
\* limits >= T and reports a non-zero refund, whenever the optimistic limit
\* is below the probe's gas limit, the value the request returns is at most
\* the value the same search returns when the optimistic guess is left out.
C13_OptimisticAtMostPlainSearch_AsStated ==
    (exec.det /\ ReturnedBySearch /\ probe_res.gas_refunded > 0 /\ opt_limit > 0
        /\ SearchWithoutOptimistic(exec, input, probe_limit, probe_res).tag = "Ok")
    => result.gas <= SearchWithoutOptimistic(exec, input, probe_limit, probe_res).gas

\* the value of the search without the optimistic guess, for the request at hand
PlainSearchValue == SearchWithoutOptimistic(exec, input, probe_limit, probe_res).gas

\* C13: for a deterministic executor that succeeds exactly at gas limits >= T,
\* reports a non-zero refund and whose successful probe reports gas_used <= T,
\* whenever the optimistic limit is below the probe's gas limit, the value
\* returned with the optimistic guess and the value of the same search without
\* it are both at least T and less than ESTIMATE_GAS_ERROR_RATIO of themselves
\* above it, so neither exceeds the other by that ratio of itself or more.
C13_OptimisticWithinToleranceOfPlainSearch ==
    (exec.det /\ ReturnedBySearch /\ probe_res.gas_refunded > 0 /\ opt_limit > 0
        /\ probe_res.gas_used <= exec.T
        /\ SearchWithoutOptimistic(exec, input, probe_limit, probe_res).tag = "Ok")
    => /\ result.gas >= exec.T
       /\ PlainSearchValue >= exec.T
       /\ (result.gas - exec.T) * 1000 < 15 * result.gas
       /\ (PlainSearchValue - exec.T) * 1000 < 15 * PlainSearchValue
       /\ (result.gas - PlainSearchValue) * 1000 < 15 * result.gas
       /\ (PlainSearchValue - result.gas) * 1000 < 15 * PlainSearchValue

\* the optimistic guess ran on a refunding execution and the request
\* returned more than the search without the guess returns
C13_Witness ==
    /\ exec.det
    /\ ReturnedBySearch
    /\ probe_res.gas_refunded > 0
    /\ opt_limit > 0
    /\ probe_res.gas_used <= exec.T
    /\ SearchWithoutOptimistic(exec, input, probe_limit, probe_res).tag = "Ok"
    /\ result.gas > PlainSearchValue

\* what read_block_bodies owes for input i of the call
BodyAsRequired(i) ==
    LET inp == call.inputs[i]
        body == call.out[i]
    IN  /\ body.transactions = inp.transactions
        /\ body.withdrawals.some = (inp.timestamp >= chain_spec.shanghai_time)
        /\ body.withdrawals.some =>
              body.withdrawals.v = (IF withdrawals_table[inp.number].some
                                        THEN withdrawals_table[inp.number].v
                                        ELSE <<>>)
        /\ ~body.withdrawals.some => body.withdrawals.v = <<>>
        /\ body.ommers = (IF inp.number >= chain_spec.paris_block
                              THEN <<>>
                              ELSE IF ommers_table[inp.number].some
                                       THEN ommers_table[inp.number].v
                                       ELSE <<>>)

\* C14: read_block_bodies returns one body per input, in the order of the
\* inputs, each with the transactions of its input; withdrawals is Some (the
\* stored list, or the empty list when none is stored) exactly when Shanghai
\* is active at the header's timestamp; ommers is empty when Paris is active
\* at the header's number, whatever is stored, and the stored ommers (empty
\* when none are stored) otherwise.
C14_ReadBlockBodies ==
    (call.op = "read" /\ call.ok) =>
        /\ Len(call.out) = Len(call.inputs)
        /\ \A i \in 1..Len(call.inputs) : BodyAsRequired(i)

\* two inputs were read in one call: a block after Paris with stored ommers
\* whose body came back without them and without withdrawals (before
\* Shanghai), and a block before Paris, after Shanghai, nothing stored for
\* its withdrawals, whose body carries an empty list
C14_Witness ==
    /\ call.op = "read"
    /\ call.ok
    /\ Len(call.inputs) = 2
    /\ call.inputs[1].number >= chain_spec.paris_block
    /\ ommers_table[call.inputs[1].number].some
    /\ call.inputs[1].timestamp < chain_spec.shanghai_time
    /\ call.out[1].ommers = <<>>
    /\ ~call.out[1].withdrawals.some
    /\ call.inputs[2].number < chain_spec.paris_block
    /\ call.inputs[2].timestamp >= chain_spec.shanghai_time
    /\ ~withdrawals_table[call.inputs[2].number].some
    /\ ommers_table[call.inputs[2].number].some
    /\ call.out[2].ommers # <<>>
    /\ call.out[2].withdrawals = [some |-> TRUE, v |-> <<>>]
    /\ call.inputs[1].transactions # call.inputs[2].transactions

\* where the disambiguator is called from and what follows it
DisambiguatorCallStep ==
    \* it is called right after the probe, on a gas-too-high error or a
    \* Revert of a request that specified a gas limit or a gas price
    /\ (pc' = "disamb" /\ pc # "disamb") =>
            /\ pc = "probe"
            /\ calls' = calls + 1
            /\ last_limit' = probe_limit'
            /\ probe_res'.kind \in {"GasTooHigh", "Revert"}
            /\ input.gas.some \/ input.price_some
            /\ retry_res'.kind = "none"
    \* it runs once and ends the request with an error
    /\ pc = "disamb" =>
            /\ retry_res.kind = "none"
            /\ retry_res'.kind # "none"
            /\ calls' = calls + 1
            /\ pc' = "done"
            /\ result'.tag = "Err"
    \* its re-execution is made nowhere else
    /\ retry_res'.kind # retry_res.kind => pc = "disamb"
    /\ retry_res'.kind # "none" =>
            /\ pc' = "done"
            /\ opt_limit' = 0
            /\ calls' = (IF PlainTransfer THEN 3 ELSE 2)

\* C15: the disambiguator is called at most once in a request, only right
\* after the probe, only when the probe ended in a gas-too-high error or a
\* Revert and the request specified a gas limit or a gas price; never from
\* the short-circuit, the optimistic guess or the loop; after it no
\* invocation is made and the request ends with an error.
C15_DisambiguatorOnlyAfterProbe == [][DisambiguatorCallStep]_vars

\* the disambiguator ran after a gas-too-high probe of a request that
\* specified only a gas price
C15_Witness ==
    /\ pc = "done"
    /\ probe_res.kind = "GasTooHigh"
    /\ input.price_some
    /\ ~input.gas.some
    /\ retry_res.kind # "none"
    /\ result.tag = "Err"
    /\ opt_limit = 0

\* the ceiling of the request as its inputs give it
RequestCeiling ==
    LET by_block == IF input.gas.some /\ input.gas.v < input.block
                        THEN input.gas.v
                        ELSE input.block
    IN  IF input.price > 0 /\ input.allowance.v < by_block
            THEN input.allowance.v
            ELSE by_block

\* C16: the probe's gas limit exceeds neither the block's gas limit, nor a
\* gas limit the caller specified, nor, when the gas price is not zero, the
\* caller's allowance; every gas limit the optimistic guess or the search
\* tests afterwards, and every value the search returns, is at most the
\* probe's gas limit.
C16_CeilingBoundsEveryLimit ==
    probe_res.kind # "none" =>
        /\ probe_limit <= input.block
        /\ input.gas.some => probe_limit <= input.gas.v
        /\ input.price > 0 => probe_limit <= input.allowance.v
        /\ probe_limit <= RequestCeiling
        /\ highest_gas_limit <= RequestCeiling
        /\ probe_res.kind = "Success" =>
              /\ last_limit <= probe_limit
              /\ opt_limit <= probe_limit
              /\ tx_gas_limit <= probe_limit
              /\ highest_gas_limit <= probe_limit
              /\ pc = "loop" => mid_gas_limit <= probe_limit
              /\ result.tag = "Ok" => result.gas <= probe_limit

\* a search of a request whose allowance capped the probe below the block's
\* gas limit returned after the optimistic guess and iterations
C16_Witness ==
    /\ pc = "done"
    /\ result.tag = "Ok"
    /\ probe_res.kind = "Success"
    /\ input.price > 0
    /\ probe_limit = input.allowance.v
    /\ probe_limit < input.block
    /\ opt_limit > 0
    /\ calls >= 4
    /\ result.gas < probe_limit

\* what a step that hands an execution result to update_estimated_gas_range
\* does to the bounds
RangeUpdateStep ==
    (pc \in {"optimistic", "loop"} /\ calls' = calls + 1
        /\ last_kind' \in {"Success", "Revert", "Halt"})
    => /\ result' = Pending
       /\ pc' = "loop"
       /\ last_kind' = "Success" =>
             /\ highest_gas_limit' = last_limit'
             /\ lowest_gas_limit' = lowest_gas_limit
       /\ last_kind' \in {"Revert", "Halt"} =>
             /\ lowest_gas_limit' = last_limit'
             /\ highest_gas_limit' = highest_gas_limit

\* C17: update_estimated_gas_range never fails and assigns one bound: on
\* Success highest_gas_limit becomes the tested gas limit and
\* lowest_gas_limit stays; on Revert and on Halt, whatever the halt reason,
\* lowest_gas_limit becomes the tested gas limit and highest_gas_limit stays;
\* a Halt in the search is no error and acts as a Revert does.
C17_RangeUpdate == [][RangeUpdateStep]_vars

\* an iteration of the loop halted and the search goes on with the tested
\* limit as the lower bound
C17_Witness ==
    /\ pc = "loop"
    /\ calls >= 3
    /\ last_kind = "Halt"
    /\ lowest_gas_limit = last_limit
    /\ highest_gas_limit > lowest_gas_limit
    /\ result = Pending

\* the optimistic limit of the request at hand, from the probe's result
OptimisticLimitOfProbe ==
    ((probe_res.gas_used + probe_res.gas_refunded + 2300) * 64) \div 63

\* the gas a deterministic executor reports for a run at `limit`
ReportedGasUsed(limit) ==
    IF limit >= exec.T
        THEN (IF exec.U < limit THEN exec.U ELSE limit)
        ELSE IF exec.fail = "Halt"
                 THEN limit
                 ELSE (IF exec.failUsed < limit THEN exec.failUsed ELSE limit)

OptimisticGuessStep ==
    \* the bounds after a successful probe
    /\ (pc = "probe" /\ pc' = "optimistic") =>
            /\ probe_res'.kind = "Success"
            /\ gas_used' = probe_res'.gas_used
            /\ lowest_gas_limit' = (IF gas_used' >= 1 THEN gas_used' - 1 ELSE 0)
            /\ highest_gas_limit' = probe_limit'
            /\ opt_limit' = 0
    \* the optimistic guess
    /\ pc = "optimistic" =>
            IF OptimisticLimitOfProbe < probe_limit
                THEN /\ calls' = calls + 1
                     /\ last_limit' = OptimisticLimitOfProbe
                     /\ opt_limit' = OptimisticLimitOfProbe
                     /\ last_kind' \in {"Success", "Revert", "Halt"} =>
                           /\ pc' = "loop"
                           /\ result' = Pending
                           /\ highest_gas_limit' =
                                 (IF last_kind' = "Success" THEN last_limit'
                                                            ELSE highest_gas_limit)
                           /\ lowest_gas_limit' =
                                 (IF last_kind' = "Success" THEN lowest_gas_limit
                                                            ELSE last_limit')
                           /\ gas_used' <= last_limit'
                           /\ last_kind' = "Halt" => gas_used' = last_limit'
                           /\ exec.det => gas_used' = ReportedGasUsed(last_limit')
                     /\ last_kind' \notin {"Success", "Revert", "Halt"} =>
                           (pc' = "done" /\ result'.tag = "Err")
                ELSE /\ calls' = calls
                     /\ opt_limit' = 0
                     /\ pc' = "loop"
                     /\ gas_used' = probe_res.gas_used
                     /\ lowest_gas_limit' =
                           (IF probe_res.gas_used >= 1 THEN probe_res.gas_used - 1 ELSE 0)
                     /\ highest_gas_limit' = probe_limit
    \* it is made nowhere else
    /\ pc # "optimistic" => opt_limit' = opt_limit

\* C18: after a successful probe with gas_used U and refund R the optimistic
\* guess executes at most once, at (U + R + CALL_STIPEND_GAS) * 64 / 63, and
\* only when that is below the probe's gas limit; otherwise nothing is
\* executed and the bounds stay lowest = U - 1 (0 for U = 0) and highest =
\* the probe's gas limit; when it executes, its result moves the bounds by
\* the rule of the range update and gas_used becomes the gas that run used.
C18_OptimisticGuess == [][OptimisticGuessStep]_vars

\* the probe reported no gas used, lowest_gas_limit started at 0, and the
\* optimistic guess ran, failed and became the lower bound
C18_Witness ==
    /\ probe_res.kind = "Success"
    /\ probe_res.gas_used = 0
    /\ pc = "loop"
    /\ calls = 2
    /\ opt_limit = ((probe_res.gas_refunded + 2300) * 64) \div 63
    /\ lowest_gas_limit = opt_limit
    /\ highest_gas_limit = probe_limit
    /\ gas_used > 0

\* the number of invocations made when the loop is entered
CallsAtLoopEntry == CallsAtProbe + (IF opt_limit > 0 THEN 1 ELSE 0)

\* an iteration after the first that goes on to another brings the bounds
\* closer together
ShrinkingStep ==
    (pc = "loop" /\ calls' = calls + 1 /\ calls > CallsAtLoopEntry /\ pc' = "loop")
    => /\ lowest_gas_limit < highest_gas_limit
       /\ highest_gas_limit' - lowest_gas_limit' < highest_gas_limit - lowest_gas_limit

\* the bounds when the loop has returned
BoundsAtReturn ==
    ReturnedBySearch =>
        \/ highest_gas_limit <= lowest_gas_limit + 1
        \/ (highest_gas_limit - lowest_gas_limit) * 1000 < 15 * highest_gas_limit

\* C19: whatever the executor answers, as long as it answers, the request
\* returns a value or an error; when the loop returns a value the bounds are
\* at most 1 apart or less than ESTIMATE_GAS_ERROR_RATIO of highest_gas_limit
\* apart; every iteration after the first brings the bounds strictly closer.
C19_SearchTerminates ==
    /\ <>(pc = "done")
    /\ []BoundsAtReturn
    /\ [][ShrinkingStep]_vars

\* the loop returned on the tolerance after four iterations or more
C19_Witness ==
    /\ ReturnedBySearch
    /\ calls >= CallsAtLoopEntry + 4
    /\ highest_gas_limit > lowest_gas_limit + 1
    /\ (highest_gas_limit - lowest_gas_limit) * 1000 < 15 * highest_gas_limit

\* C20: every gas limit the loop tests lies strictly between
\* lowest_gas_limit and highest_gas_limit as they are when it is tested, the
\* first midpoint min(gas_used * 3, (highest + lowest) / 2) included, where
\* gas_used is that of the latest execution (a failed optimistic run, too).
C20_MidpointStrictlyInside ==
    (pc = "loop" /\ lowest_gas_limit + 1 < highest_gas_limit
        /\ (highest_gas_limit - lowest_gas_limit) * 1000 >= 15 * highest_gas_limit)
    => (lowest_gas_limit < mid_gas_limit /\ mid_gas_limit < highest_gas_limit)

\* what an executor error does in an iteration of the loop
LoopErrorStep ==
    (pc = "loop" /\ calls' = calls + 1) =>
        /\ last_limit' = mid_gas_limit
        /\ last_kind' = "GasTooHigh" =>
              /\ highest_gas_limit' = mid_gas_limit
              /\ lowest_gas_limit' = lowest_gas_limit
              /\ pc' = "loop"
              /\ result' = Pending
        /\ last_kind' = "GasTooLow" =>
              /\ lowest_gas_limit' = mid_gas_limit
              /\ highest_gas_limit' = highest_gas_limit
              /\ pc' = "loop"
              /\ result' = Pending
        /\ last_kind' \notin {"GasTooHigh", "GasTooLow", "Success", "Revert", "Halt"} =>
              /\ pc' = "done"
              /\ result' = [tag |-> "Err", gas |-> 0, err |-> last_kind', gas_limit |-> 0,
                            output |-> "", reason |-> ""]
              /\ highest_gas_limit' = highest_gas_limit
              /\ lowest_gas_limit' = lowest_gas_limit

\* C21: in the loop an executor error classified gas-too-high makes the
\* tested midpoint the new highest_gas_limit and one classified gas-too-low
\* makes it the new lowest_gas_limit; the other bound stays, the search goes
\* on and no error is returned; any other executor error ends the request
\* with that error.
C21_LoopErrors == [][LoopErrorStep]_vars

\* an iteration of the loop met a gas-too-low error and the search goes on
\* with the tested midpoint as the lower bound
C21_Witness ==
    /\ pc = "loop"
    /\ last_kind = "GasTooLow"
    /\ calls > CallsAtLoopEntry
    /\ lowest_gas_limit = last_limit
    /\ lowest_gas_limit < highest_gas_limit
    /\ result = Pending

\* what a removal that returned Ok has done to the tables, and what a read
\* of a block above the removal's block number then yields
RemoveStep ==
    (call.op = "none" /\ call'.op = "remove" /\ call'.ok) =>
        /\ \A n \in 1..MaxBlock :
              IF n > call'.block
                  THEN /\ ~ommers_table'[n].some
                       /\ ~withdrawals_table'[n].some
                  ELSE /\ ommers_table'[n] = ommers_table[n]
                       /\ withdrawals_table'[n] = withdrawals_table[n]
        /\ \A inp \in ReadBodyInputs :
              inp.number > call'.block =>
                 LET body == read_block_bodies(chain_spec, ommers_table',
                                               withdrawals_table', <<inp>>)[1]
                 IN  /\ body.ommers = <<>>
                     /\ body.withdrawals.v = <<>>

\* C22: after any sequence of write_block_bodies calls,
\* remove_block_bodies_above(n) leaves no ommers entry and no withdrawals
\* entry with a block number above n and leaves every entry up to n as it
\* was; read_block_bodies for a block above n then yields empty ommers and
\* withdrawals that are an empty list or None.
C22_RemoveAbove == [][RemoveStep]_vars

\* a removal above a block that has both entries returned: the entries of
\* the block are there and nothing is stored above it
C22_Witness ==
    /\ call.op = "remove"
    /\ call.ok
    /\ call.block >= 1
    /\ call.block < MaxBlock
    /\ ommers_table[call.block].some
    /\ withdrawals_table[call.block].some
    /\ \A n \in 1..MaxBlock : n > call.block =>
          (~ommers_table[n].some /\ ~withdrawals_table[n].some)

\* the body respects the hardfork rules at block n and timestamp t
RespectsHardforks(body, n, t) ==
    /\ n >= chain_spec.paris_block => body.ommers = <<>>
    /\ body.withdrawals.some = (t >= chain_spec.shanghai_time)

\* the body read back after the write for block n with timestamp t and
\* the transactions txs
ReadBack(n, t, txs) ==
    read_block_bodies(chain_spec, ommers_table', withdrawals_table',
                      <<[number |-> n, timestamp |-> t, transactions |-> txs]>>)[1]

\* a write that returned Ok stored an entry only for elements that carry a
\* body with a non-empty list
WritesOnlyNonEmpty ==
    \A n \in 1..MaxBlock :
        /\ ommers_table'[n] # ommers_table[n] =>
              \E i \in 1..Len(call'.bodies) :
                  /\ call'.bodies[i].some
                  /\ call'.bodies[i].number = n
                  /\ call'.bodies[i].body.ommers # <<>>
                  /\ ommers_table'[n] = [some |-> TRUE, v |-> call'.bodies[i].body.ommers]
        /\ withdrawals_table'[n] # withdrawals_table[n] =>
              \E i \in 1..Len(call'.bodies) :
                  /\ call'.bodies[i].some
                  /\ call'.bodies[i].number = n
                  /\ call'.bodies[i].body.withdrawals.some
                  /\ call'.bodies[i].body.withdrawals.v # <<>>
                  /\ withdrawals_table'[n] =
                        [some |-> TRUE, v |-> call'.bodies[i].body.withdrawals.v]

\* element i of the written vector reads back as written
RoundTrips(i) ==
    LET e == call'.bodies[i] IN
    \A t \in 1..MaxTimestamp :
        RespectsHardforks(e.body, e.number, t) =>
            ReadBack(e.number, t, e.body.transactions) = e.body

\* the tables held nothing for the block of element i before the write and
\* no other element of the vector carries a body for that block
WrittenOnce(i) ==
    LET n == call'.bodies[i].number IN
    /\ ~ommers_table[n].some
    /\ ~withdrawals_table[n].some
    /\ \A j \in 1..Len(call'.bodies) :
          (call'.bodies[j].some /\ call'.bodies[j].number = n) => j = i

WriteStep_AsStated ==
    (call.op = "none" /\ call'.op = "write" /\ call'.ok) =>
        /\ WritesOnlyNonEmpty
        /\ \A i \in 1..Len(call'.bodies) : call'.bodies[i].some => RoundTrips(i)

WriteStep ==
    (call.op = "none" /\ call'.op = "write" /\ call'.ok) =>
        /\ WritesOnlyNonEmpty
        /\ \A i \in 1..Len(call'.bodies) :
              (call'.bodies[i].some /\ WrittenOnce(i)) => RoundTrips(i)

\* C23 as stated: write_block_bodies skips the elements without a body and
\* stores no entry for empty ommers or for empty or absent withdrawals, and
\* every written (block_number, Some(body)) whose body respects the hardfork
\* rules reads back, with the same transactions, as the body written.
C23_WriteReadRoundTrip_AsStated == [][WriteStep_AsStated]_vars

\* C23: write_block_bodies skips the elements without a body and stores no
\* entry for empty ommers or for empty or absent withdrawals, and every
\* written (block_number, Some(body)) whose body respects the hardfork rules
\* reads back, with the same transactions, as the body written, provided the
\* call returned Ok, the tables held no entry for that block number before
\* it and the vector carries one body for that block number.
C23_WriteReadRoundTrip == [][WriteStep]_vars

\* a write of two elements returned Ok: the first without a body, the second
\* the body of a block before Paris with ommers and withdrawals, both stored
C23_Witness ==
    /\ call.op = "write"
    /\ call.ok
    /\ Len(call.bodies) = 2
    /\ ~call.bodies[1].some
    /\ call.bodies[2].some
    /\ call.bodies[2].number < chain_spec.paris_block
    /\ call.bodies[2].body.ommers # <<>>
    /\ call.bodies[2].body.withdrawals.some
    /\ call.bodies[2].body.withdrawals.v # <<>>
    /\ ommers_table[call.bodies[2].number].v = call.bodies[2].body.ommers
    /\ withdrawals_table[call.bodies[2].number].v = call.bodies[2].body.withdrawals.v
    /\ ~ommers_table[call.bodies[1].number].some

====
